---- MODULE Spec2Model ----
(***************************************************************************)
(* Model of jeensys_excel_downloader: main.py (browser automation that     *)
(* exports the device list to Excel, then parses the sheet and prints a    *)
(* report) and bot.py (the Telegram /report handler that spawns main.py    *)
(* and formats the report).                                                *)
(*                                                                         *)
(* Cyrillic literals of the source are transliterated to ASCII because     *)
(* TLA+ strings are ASCII only; letter case and spacing are preserved.     *)
(* Python strings that the code inspects character by character are        *)
(* sequences of one-character strings.                                     *)
(***************************************************************************)
EXTENDS Integers, Sequences, FiniteSets, TLC

VARIABLES
    mode,        \* "cli": main.py started by hand; "bot": started by /report
    environ,     \* os.environ: JEENSYS_LOGIN / JEENSYS_PASSWORD
    keep_open,   \* "--keep-open" in sys.argv
    pc,          \* position of the main.py process
    exc,         \* exception caught by main()'s except clause ("none" if none)
    driver,      \* browser session: "none", "open", "closed"
    quits,       \* number of driver.quit() calls
    navigated,   \* URLs passed to driver.get, in order
    ui,          \* the page as the browser shows it
    race,        \* login race: what appeared first, what any_of returned
    nav,         \* Export Navigator: states entered and what was observed
    files,       \* entries of the script directory
    excel_path,  \* result of the last find_latest_excel()
    all_rows,    \* rows of the loaded sheet after the header row
    devices_by_client, \* result of the last parse_excel_devices()
    report_text, \* lines of the last format_report()
    stats_by_client, \* calculate_stats() of each list of the report input
    stdout,      \* what main.py printed, in order
    returncode,  \* exit status of the main.py process ("running" until it ends)
    botpc,       \* position of bot.py's report handler
    replies      \* messages the handler sent to the chat, in order

vars == <<mode, environ, keep_open, pc, exc, driver, quits, navigated, ui,
          race, nav, files, excel_path, all_rows, devices_by_client,
          report_text, stats_by_client, stdout, returncode, botpc, replies>>

(***************************************************************************)
(* Constants of the source.                                                *)
(***************************************************************************)
SIGNIN_URL == "https://mon.jeensys.com/signin"
DEVICES_URL == "https://mon.jeensys.com/devices"

\* The elements the locators of main.py address.
Elements == {"username", "password", "submit", "select", "toggle", "panel",
             "export", "download", "confirm"}

\* States of the Export Navigator, in the order export_devices_excel visits them.
NavOrder == <<"PageLoaded", "DevicesSelected", "SettingsPanelOpen",
              "ExportTriggered", "DownloadConfirmed", "Downloading", "Done">>

(***************************************************************************)
(* The page.  An element is "absent", "present" (in the DOM) or            *)
(* "clickable" (displayed and enabled).  The page renders asynchronously:  *)
(* the environment actions below move elements towards what is due.        *)
(***************************************************************************)
BlankUi ==
    [url |-> "blank", alert |-> FALSE, el |-> [e \in Elements |-> "absent"],
     submitted |-> FALSE, select_clicked |-> FALSE, select_active |-> FALSE,
     panel_open |-> FALSE, stage |-> "none"]

\* Whether the page is to show element e.
Due(u, e) ==
    CASE e \in {"username", "password", "submit"} -> u.url = "signin"
      [] e \in {"select", "toggle"} -> u.url = "devices"
      [] e = "panel" -> u.url = "devices" /\ u.panel_open
      [] e = "export" -> u.url = "devices" /\ u.el["panel"] # "absent"
      [] e = "download" -> u.stage = "export_clicked"
      [] e = "confirm" -> u.stage = "download_clicked"

\* EC.presence_of_element_located(locator)
presence_of_element_located(u, e) == u.el[e] # "absent"

\* EC.element_to_be_clickable(locator)
element_to_be_clickable(u, e) == u.el[e] = "clickable"

\* EC.url_contains("/dashboard")
url_contains_dashboard(u) == u.url = "dashboard"

\* driver.find_elements(By.CLASS_NAME, "ant-alert-error")
find_alert_error(u) == u.alert

(***************************************************************************)
(* Python strings and numbers.                                             *)
(***************************************************************************)
\* str.startswith(prefix)
startswith(s, prefix) ==
    Len(s) >= Len(prefix) /\ SubSeq(s, 1, Len(prefix)) = prefix

\* str.endswith(suffix)
endswith(s, suffix) ==
    Len(s) >= Len(suffix) /\ SubSeq(s, Len(s) - Len(suffix) + 1, Len(s)) = suffix

\* The characters str.strip() and str.split() treat as whitespace.
Whitespace == {" ", "\t", "\n"}

RECURSIVE lstrip(_)
lstrip(s) ==
    IF s # <<>> /\ Head(s) \in Whitespace THEN lstrip(Tail(s)) ELSE s

RECURSIVE rstrip(_)
rstrip(s) ==
    IF s # <<>> /\ s[Len(s)] \in Whitespace
    THEN rstrip(SubSeq(s, 1, Len(s) - 1)) ELSE s

\* str.strip()
strip(s) == lstrip(rstrip(s))

\* str.replace(",", ".")
replace_comma(s) == [i \in 1..Len(s) |-> IF s[i] = "," THEN "." ELSE s[i]]

\* The first token of str.split(): the characters up to the first whitespace
\* after the leading whitespace; "IndexError" when split() is empty.
RECURSIVE TakeToken(_)
TakeToken(s) ==
    IF s = <<>> \/ Head(s) \in Whitespace THEN <<>>
    ELSE <<Head(s)>> \o TakeToken(Tail(s))

split_first(s) ==
    IF lstrip(s) = <<>> THEN [exc |-> "IndexError"]
    ELSE [exc |-> "none", v |-> TakeToken(lstrip(s))]

Digits == <<"0", "1", "2", "3", "4", "5", "6", "7", "8", "9">>
IsDigit(c) == \E i \in 1..10 : Digits[i] = c
DigitVal(c) == (CHOOSE i \in 1..10 : Digits[i] = c) - 1

RECURSIVE Pow10(_)
Pow10(k) == IF k = 0 THEN 1 ELSE 10 * Pow10(k - 1)

RECURSIVE DigitsVal(_)
DigitsVal(s) ==
    IF s = <<>> THEN 0 ELSE 10 * DigitsVal(SubSeq(s, 1, Len(s) - 1)) + DigitVal(s[Len(s)])

\* Exact rationals n/d, d > 0, in lowest terms.  Python's floats are modelled
\* by their exact values; binary rounding error is not modelled.
Abs(n) == IF n < 0 THEN -n ELSE n

RECURSIVE Gcd(_, _)
Gcd(a, b) == IF b = 0 THEN a ELSE Gcd(b, a % b)

Rat(n, d) ==
    LET g == Gcd(Abs(n), d) IN [n |-> n \div g, d |-> d \div g]

RatAdd(a, b) == Rat(a.n * b.d + b.n * a.d, a.d * b.d)

\* a / k for an integer k: ZeroDivisionError when k = 0.
RatDivInt(a, k) == IF k = 0 THEN "ZeroDivisionError" ELSE Rat(a.n, a.d * k)

RatLeq(a, b) == a.n * b.d <= b.n * a.d

Zero == Rat(0, 1)

\* float(token) for a token over digits, ".", "-" and other characters:
\* [-] digits [ "." [digits] ]  or  [-] "." digits ; anything else is a
\* ValueError.  (Exponents, "+", "_", "inf" and "nan" are outside the alphabet
\* of the modelled cells.)
Signed(neg, mag) == IF neg THEN Rat(-mag.n, mag.d) ELSE mag

\* ip and fp are the characters before and after the decimal point.
float_of_parts(neg, ip, fp, ndots) ==
    IF /\ ndots <= 1
       /\ \A i \in 1..Len(ip) : IsDigit(ip[i])
       /\ \A i \in 1..Len(fp) : IsDigit(fp[i])
       /\ Len(ip) + Len(fp) > 0
    THEN [exc |-> "none",
          v |-> Signed(neg, Rat(DigitsVal(ip) * Pow10(Len(fp)) + DigitsVal(fp),
                                Pow10(Len(fp))))]
    ELSE [exc |-> "ValueError"]

float_of_dots(neg, body, dots) ==
    IF dots = {} THEN float_of_parts(neg, body, <<>>, 0)
    ELSE float_of_parts(neg,
                        SubSeq(body, 1, (CHOOSE i \in dots : TRUE) - 1),
                        SubSeq(body, (CHOOSE i \in dots : TRUE) + 1, Len(body)),
                        Cardinality(dots))

float_of_body(neg, body) ==
    float_of_dots(neg, body, {i \in 1..Len(body) : body[i] = "."})

py_float(tok) ==
    IF tok # <<>> /\ Head(tok) = "-" THEN float_of_body(TRUE, Tail(tok))
    ELSE float_of_body(FALSE, tok)

\* round(x): to the nearest integer, ties to the even one.
\* int(x) in place of int(round(x)): truncation toward zero.
py_round_truncating(x) == IF x.n >= 0 THEN x.n \div x.d ELSE -((-x.n) \div x.d)

py_round(x) ==
    LET fl == x.n \div x.d
        r2 == 2 * (x.n - fl * x.d)
    IN  IF r2 < x.d THEN fl
        ELSE IF r2 > x.d THEN fl + 1
        ELSE IF fl % 2 = 0 THEN fl ELSE fl + 1

\* str(n) for an integer n, as characters.
RECURSIVE NatChars(_)
NatChars(n) ==
    IF n < 10 THEN <<Digits[n + 1]>> ELSE NatChars(n \div 10) \o <<Digits[(n % 10) + 1]>>

IntChars(n) == IF n < 0 THEN <<"-">> \o NatChars(-n) ELSE NatChars(n)

(***************************************************************************)
(* Download Resolver: find_latest_excel.                                   *)
(* The directory is a function from entry names to [ctime, sheet].         *)
(***************************************************************************)
\* glob.glob(os.path.join(path, "*.xlsx")): the names the pattern matches.
\* glob does not match a name that begins with a dot against a pattern that
\* does not.
glob_xlsx(dir) ==
    {f \in DOMAIN dir : endswith(f, <<".", "x", "l", "s", "x">>) /\ Head(f) # "."}

\* The list comprehension of find_latest_excel.
NoTempMarker(f) == ~startswith(f, <<"~", "$">>)

\* A comprehension without the temp-file filter.
excel_files_unfiltered(dir) == glob_xlsx(dir)

excel_files(dir) == {f \in glob_xlsx(dir) : NoTempMarker(f)}

\* The values find_latest_excel can return for the directory: max() returns
\* the first maximal element in glob's (unspecified) order.
find_latest_excel(dir) ==
    IF excel_files(dir) = {} THEN {[exc |-> "FileNotFoundError"]}
    ELSE {[exc |-> "none", v |-> f] :
            f \in {f \in excel_files(dir) :
                     \A g \in excel_files(dir) : dir[g].ctime <= dir[f].ctime}}

(***************************************************************************)
(* Device Extractor: parse_excel_devices.                                  *)
(* A cell is None, a str or an int; a row is a tuple of cells.             *)
(***************************************************************************)
PyNone == [t |-> "None"]
PyStr(s) == [t |-> "str", s |-> s]
PyInt(n) == [t |-> "int", v |-> n]

\* str(cell)
py_str(cell) ==
    CASE cell.t = "None" -> <<"N", "o", "n", "e">>
      [] cell.t = "str" -> cell.s
      [] cell.t = "int" -> IntChars(cell.v)

\* bool(cell)
truthy(cell) ==
    CASE cell.t = "None" -> FALSE
      [] cell.t = "str" -> cell.s # <<>>
      [] cell.t = "int" -> cell.v # 0

\* client_mapping, in insertion order: <<raw label, short key>>.
client_mapping ==
    <<
       <<<<"N", "a", "s", "h", "a", " ", "k", "o", "m", "p", "a", "n", "i", "y", "a", " ", "L", "7">>,
         "L7">>,
       <<<<"N", "a", "s", "h", "a", " ", "k", "o", "m", "p", "a", "n", "i", "y", "a", " ", "L", "9">>,
         "L9">>,
       <<<<"N", "a", "s", "h", "a", " ", "k", "o", "m", "p", "a", "n", "i", "y", "a", " ", "W", "h", "a", "t", "s", "m", "i", "n", "e", "r">>,
         "WM">>,
       <<<<"N", "a", "s", "h", "a", " ", "k", "o", "m", "p", "a", "n", "i", "y", "a", " ", "T", "2", "1">>,
         "T21">>,
       <<<<"N", "a", "s", "h", "a", " ", "k", "o", "m", "p", "a", "n", "i", "y", "a", " ", "S", "1", "9">>,
         "S19">>,
       <<<<"N", "a", "s", "h", "a", " ", "K", "o", "m", "p", "a", "n", "i", "y", "a", " ", "2">>,
         "S19_dop">>,
       <<<<"N", "a", "s", "h", "a", " ", "k", "o", "m", "p", "a", "n", "i", "y", "a", " ", "E", "M", "C", "D">>,
         "S19_emcd">>
    >>

\* Whether sequence p occurs in sequence s.
Occurs(p, s) ==
    \E i \in 1..(Len(s) - Len(p) + 1) : SubSeq(s, i, i + Len(p) - 1) = p

\* A filter that uses "full_name in str(row[8])" instead of equality.
row_matches_substring(row, full_name) ==
    Len(row) > 8 /\ Occurs(strip(full_name), py_str(row[9]))

\* The condition of the filtered_rows comprehension (0-based column 8).
row_matches(row, full_name) ==
    Len(row) > 8 /\ strip(py_str(row[9])) = strip(full_name)

\* The exceptions the try block around the hashrate conversion catches.
CaughtByParse == {"ValueError", "IndexError", "AttributeError", "TypeError"}

\* float(str(hashrate_str).replace(",", ".").split()[0])
leading_number(hashrate_str) ==
    IF split_first(replace_comma(py_str(hashrate_str))).exc # "none"
    THEN split_first(replace_comma(py_str(hashrate_str)))
    ELSE py_float(split_first(replace_comma(py_str(hashrate_str))).v)

\* The rest of the try/except of lines 217-221 for the conversion's outcome:
\* the normalised hashrate, or the exception that escapes the except clause.
normalise(num) ==
    IF num.exc = "none" THEN [exc |-> "none", v |-> RatDivInt(num.v, 1000)]
    ELSE IF num.exc \in CaughtByParse THEN [exc |-> "none", v |-> Zero]
    ELSE [exc |-> num.exc]

parse_hashrate(hashrate_str) == normalise(leading_number(hashrate_str))

\* The record the inner loop appends for client_name and the parsed
\* hashrate h, "skip" for a continue, or the exception raised.
record_of(client_name, h) ==
    IF ~truthy(client_name) THEN [exc |-> "none", skip |-> TRUE]
    ELSE IF h.exc # "none" THEN [exc |-> h.exc, skip |-> TRUE]
    ELSE [exc |-> "none", skip |-> FALSE,
          rec |-> [name |-> client_name, hashrate |-> h.v]]

\* The body of the inner loop for one filtered row.
row_record(row) ==
    IF Len(row) < 9 THEN [exc |-> "none", skip |-> TRUE]
    ELSE record_of(row[9],
                   parse_hashrate(IF Len(row) > 14 THEN row[15] ELSE PyStr(<<"0">>)))

Appended(r) == IF r.skip THEN <<>> ELSE <<r.rec>>

\* The records appended for one client label, in row order.
RECURSIVE records_of(_, _)
records_of(rows, full_name) ==
    IF rows = <<>> THEN <<>>
    ELSE (IF row_matches(Head(rows), full_name)
          THEN Appended(row_record(Head(rows))) ELSE <<>>)
         \o records_of(Tail(rows), full_name)

\* The exceptions the loops raise for the rows.
row_exceptions(rows) ==
    {row_record(rows[i]).exc :
        i \in {i \in 1..Len(rows) :
                 \E k \in 1..Len(client_mapping) :
                     row_matches(rows[i], client_mapping[k][1])}} \ {"none"}

\* The raw label mapped to a short key.
label_of(key) ==
    client_mapping[CHOOSE k \in 1..Len(client_mapping) : client_mapping[k][2] = key][1]

\* dict(devices_by_client): the keys with at least one record.
devices_dict(rows) ==
    [key \in {client_mapping[k][2] : k \in
                {k \in 1..Len(client_mapping) :
                   records_of(rows, client_mapping[k][1]) # <<>>}}
       |-> records_of(rows, label_of(key))]

parse_result(rows, excs) ==
    IF excs # {} THEN [exc |-> CHOOSE e \in excs : TRUE]
    ELSE [exc |-> "none", v |-> devices_dict(rows)]

\* parse_excel_devices on the rows after the header row: the dict, or the
\* exception raised.
parse_excel_devices(rows) == parse_result(rows, row_exceptions(rows))

(***************************************************************************)
(* Aggregation Engine and Report Formatter.                                *)
(***************************************************************************)
RECURSIVE sum_hashrate(_)
sum_hashrate(devices) ==
    IF devices = <<>> THEN Zero
    ELSE RatAdd(Head(devices).hashrate, sum_hashrate(Tail(devices)))

\* Floor of a rational, as a rational.
RatFloor(a) == Rat(a.n \div a.d, 1)

\* A calculate_stats whose average uses "//" instead of "/".
calculate_stats_floor_division(devices) ==
    IF devices = <<>>
    THEN [count |-> 0, total_hashrate |-> Zero, avg_hashrate |-> Zero]
    ELSE [count |-> Len(devices),
          total_hashrate |-> sum_hashrate(devices),
          avg_hashrate |-> RatFloor(RatDivInt(sum_hashrate(devices), Len(devices)))]

calculate_stats(devices) ==
    IF devices = <<>>
    THEN [count |-> 0, total_hashrate |-> Zero, avg_hashrate |-> Zero]
    ELSE [count |-> Len(devices),
          total_hashrate |-> sum_hashrate(devices),
          avg_hashrate |-> RatDivInt(sum_hashrate(devices), Len(devices))]

\* The digits of frac, zero-padded to k places.
RECURSIVE FracText(_, _)
FracText(frac, k) ==
    IF k = 0 THEN "" ELSE FracText(frac \div 10, k - 1) \o ToString(frac % 10)

\* format_number: f"{round(num)}" for 0 places, else f"{num:.{k}f}", with the
\* decimal point replaced by a comma.
format_number(num, decimal_places) ==
    IF decimal_places = 0 THEN ToString(py_round(num))
    ELSE LET scale  == Pow10(decimal_places)
             scaled == py_round(Rat(Abs(num.n) * scale, num.d))
         IN  (IF num.n < 0 THEN "-" ELSE "")
             \o ToString(scaled \div scale) \o ","
             \o FracText(scaled % scale, decimal_places)

\* devices_by_client.get(key, [])
dict_get(d, key) == IF key \in DOMAIN d THEN d[key] ELSE <<>>

\* The per-segment line both report functions emit.
segment_line(display_name, devices) ==
    LET stats == calculate_stats(devices)
        avg_hr == format_number(stats.avg_hashrate, 2)
        count == stats.count
        total_hr == py_round(stats.total_hashrate)
    IN  display_name \o "-" \o avg_hr \o " (" \o ToString(count) \o "sht-"
        \o ToString(total_hr) \o "hesh)"

ltc_clients == <<"L7", "L9">>

btc_clients_order ==
    <<<<"WM", "WM">>, <<"T21", "T21">>, <<"S19", "S19">>,
      <<"S19_dop", "S19 dop">>, <<"S19_emcd", "S19 emcd">>>>

\* client_key.startswith("S19"), over the keys of btc_clients_order.
key_startswith_S19(client_key) == client_key \in {"S19", "S19_dop", "S19_emcd"}

\* The LTC loop from client i on: lines emitted and the running total.
RECURSIVE ltc_loop(_, _, _)
ltc_loop(d, i, acc) ==
    IF i > Len(ltc_clients) THEN acc
    ELSE LET devices == dict_get(d, ltc_clients[i])
         IN  IF devices = <<>> THEN ltc_loop(d, i + 1, acc)
             ELSE ltc_loop(d, i + 1,
                    [lines |-> Append(acc.lines, segment_line(ltc_clients[i], devices)),
                     total |-> RatAdd(acc.total, calculate_stats(devices).total_hashrate)])

\* A loop that adds the S19-family segments to the total a second time, as
\* adding the combined line's total would.
btc_total_step_with_combined(total, client_key, devices) ==
    IF client_key \in {"S19", "S19_dop", "S19_emcd"}
    THEN RatAdd(RatAdd(total, sum_hashrate(devices)), sum_hashrate(devices))
    ELSE RatAdd(total, sum_hashrate(devices))

\* What one iteration of the BTC loop adds to btc_total_hashrate.
btc_total_step(total, client_key, devices) ==
    RatAdd(total, calculate_stats(devices).total_hashrate)

\* The BTC loop from client i on: lines, s19_all_devices, btc_total_hashrate.
RECURSIVE btc_loop(_, _, _)
btc_loop(d, i, acc) ==
    IF i > Len(btc_clients_order) THEN acc
    ELSE LET client_key == btc_clients_order[i][1]
             display_name == btc_clients_order[i][2]
             devices == dict_get(d, client_key)
         IN  IF devices = <<>> THEN btc_loop(d, i + 1, acc)
             ELSE btc_loop(d, i + 1,
                    [lines |-> Append(acc.lines, segment_line(display_name, devices)),
                     s19 |-> IF key_startswith_S19(client_key)
                             THEN acc.s19 \o devices ELSE acc.s19,
                     total |-> btc_total_step(acc.total, client_key, devices)])

\* The combined line over s19_all_devices.
s19_line(s19_all_devices) ==
    LET s19_stats == calculate_stats(s19_all_devices)
    IN  "Srednee S19 - " \o format_number(s19_stats.avg_hashrate, 2) \o " ("
        \o ToString(s19_stats.count) \o "sht-"
        \o ToString(py_round(s19_stats.total_hashrate)) \o "hesh)"

\* The lines of the LTC section, total line included.
ltc_section(d) ==
    LET r == ltc_loop(d, 1, [lines |-> <<>>, total |-> Zero])
    IN  r.lines \o <<"ITOG LTC " \o ToString(py_round(r.total))>>

\* The lines of the BTC section, total line included.
btc_section(d) ==
    LET r == btc_loop(d, 1, [lines |-> <<>>, s19 |-> <<>>, total |-> Zero])
    IN  r.lines
        \o (IF r.s19 # <<>> THEN <<s19_line(r.s19)>> ELSE <<>>)
        \o <<"ITOG BTC " \o ToString(py_round(r.total))>>

Banner == "=================================================="

\* bot.py format_report: the lines joined by "\n".
format_report(d) ==
    <<Banner, "OTCHYOT PO USTROYSTVAM", Banner, "">>
    \o ltc_section(d) \o <<"">> \o btc_section(d) \o <<"">>

\* main.py generate_report: the lines printed.
generate_report(d) ==
    <<"", Banner, "OTCHYOT PO USTROYSTVAM", Banner, "">>
    \o ltc_section(d) \o <<"">> \o btc_section(d) \o <<"">>

(***************************************************************************)
(* main.py: main() as a process.  The try block runs read_credentials,     *)
(* perform_login and export_devices_excel; every exception raised there    *)
(* is caught by "except Exception", printed, and followed by the finally   *)
(* clause and analyze_and_report().                                        *)
(***************************************************************************)
\* What no step of a pipeline run changes: how it was started, and the
\* aggregation results that only the report specification records.
envVars == <<mode, environ, keep_open, stats_by_client>>
botVars == <<botpc, replies, report_text>>
analysisVars == <<excel_path, all_rows, devices_by_client>>

\* An exception raised inside the try block of main(): caught and printed.
Raise(e) ==
    /\ exc' = e
    /\ stdout' = Append(stdout, "Oshibka: " \o e)
    /\ pc' = "finally"

TimeoutException == "TimeoutException"

\* The nav record with state st entered; held tells whether the readiness
\* predicate that gates st was true of the page at that moment.
Enter(st, held) ==
    [nav EXCEPT !.trace = Append(@, st),
                !.held = IF held THEN @ \cup {st} ELSE @]

Click(n, e) == [n EXCEPT !.clicks[e] = @ + 1]

\* build_driver(): starts Chrome, or raises outside the try block.
BuildDriver ==
    /\ pc = "build_driver"
    /\ \E started \in BOOLEAN :
         IF started
         THEN /\ driver' = "open"
              /\ ui' = BlankUi
              /\ pc' = "read_credentials"
              /\ UNCHANGED returncode
         ELSE /\ pc' = "crashed"
              /\ returncode' = <<1>>
              /\ UNCHANGED <<driver, ui>>
    /\ UNCHANGED <<envVars, botVars, analysisVars, exc, quits, navigated, race,
                   nav, files, stdout>>

\* read_credentials(): "not login or not password".
credentials_missing(env) ==
    env.login \in {"unset", "empty"} \/ env.password \in {"unset", "empty"}

ReadCredentials ==
    /\ pc = "read_credentials"
    /\ IF credentials_missing(environ)
       THEN Raise("Credentials not found")
       ELSE pc' = "login_get" /\ UNCHANGED <<exc, stdout>>
    /\ UNCHANGED <<envVars, botVars, analysisVars, driver, quits, navigated, ui,
                   race, nav, files, returncode>>

\* driver.get(url): the page loads, or the page-load timeout raises.
Get(url, page, next) ==
    /\ navigated' = Append(navigated, url)
    /\ \E loaded \in BOOLEAN :
         IF loaded
         THEN /\ \E open \in BOOLEAN :
                   ui' = [BlankUi EXCEPT !.url = page,
                                         !.panel_open = (page = "devices" /\ open)]
              /\ pc' = next
              /\ UNCHANGED <<exc, stdout>>
         ELSE Raise(TimeoutException) /\ UNCHANGED ui

\* A WebDriverWait whose predicate holds goes on; one whose predicate stays
\* false until the timeout raises TimeoutException.
Wait(predicate, next) ==
    IF predicate THEN pc' = next /\ UNCHANGED <<exc, stdout>>
    ELSE Raise(TimeoutException)

mainFrame == <<envVars, botVars, analysisVars, driver, quits, files, returncode>>

\* perform_login
LoginGet ==
    /\ pc = "login_get"
    /\ Get(SIGNIN_URL, "signin", "login_username")
    /\ UNCHANGED <<mainFrame, race, nav>>

LoginUsername ==
    /\ pc = "login_username"
    /\ Wait(presence_of_element_located(ui, "username"), "login_password")
    /\ UNCHANGED <<mainFrame, navigated, ui, race, nav>>

LoginPassword ==
    /\ pc = "login_password"
    /\ Wait(presence_of_element_located(ui, "password"), "login_submit")
    /\ UNCHANGED <<mainFrame, navigated, ui, race, nav>>

LoginSubmit ==
    /\ pc = "login_submit"
    /\ Wait(presence_of_element_located(ui, "submit"), "login_enabled")
    /\ UNCHANGED <<mainFrame, navigated, ui, race, nav>>

\* until submit_button.is_enabled(), then submit_button.click()
LoginEnabled ==
    /\ pc = "login_enabled"
    /\ Wait(element_to_be_clickable(ui, "submit"), "login_race")
    /\ ui' = IF element_to_be_clickable(ui, "submit")
             THEN [ui EXCEPT !.submitted = TRUE] ELSE ui
    /\ nav' = IF element_to_be_clickable(ui, "submit") THEN Click(nav, "submit") ELSE nav
    /\ UNCHANGED <<mainFrame, navigated, race>>

\* EC.any_of(url_contains, presence_of_element_located): the first
\* condition, in argument order, that holds at the poll.
any_of(u) ==
    IF url_contains_dashboard(u) THEN "url"
    ELSE IF find_alert_error(u) THEN "alert"
    ELSE "none"

LoginRace ==
    /\ pc = "login_race"
    /\ Wait(any_of(ui) # "none", "login_check")
    /\ race' = [race EXCEPT !.result = any_of(ui)]
    /\ UNCHANGED <<mainFrame, navigated, ui, nav>>

\* The check after the wait: "if driver.find_elements(...): raise".
login_rejected(u) == find_alert_error(u)

LoginCheck ==
    /\ pc = "login_check"
    /\ IF login_rejected(ui)
       THEN Raise("Ne udalos avtorizovatsya: proverte login i parol.")
       ELSE /\ stdout' = Append(stdout, "Avtorizatsiya zavershena.")
            /\ pc' = "open_get"
            /\ UNCHANGED exc
    /\ race' = [race EXCEPT !.outcome =
                  IF login_rejected(ui) THEN "AuthenticationError" ELSE "returned"]
    /\ UNCHANGED <<mainFrame, navigated, ui, nav>>

(***************************************************************************)
(* Export Navigator: export_devices_excel and the four functions it calls. *)
(***************************************************************************)
\* A select_all_devices that takes the click for the selection.
select_assumed_from_click(u) == u.select_clicked

\* The lambda of select_all_devices: "table__select-active" in the class.
select_is_active(u) == u.select_active

\* The lambda of start_excel_download: not find_elements(confirm button).
confirm_gone(u) == ~presence_of_element_located(u, "confirm")

\* open_devices_page
OpenGet ==
    /\ pc = "open_get"
    /\ Get(DEVICES_URL, "devices", "open_wait")
    /\ UNCHANGED <<mainFrame, race, nav>>

OpenWait ==
    /\ pc = "open_wait"
    /\ Wait(presence_of_element_located(ui, "select"), "select_click")
    /\ nav' = IF presence_of_element_located(ui, "select")
              THEN Enter("PageLoaded", ui.el["select"] # "absent") ELSE nav
    /\ UNCHANGED <<mainFrame, navigated, ui, race>>

\* select_all_devices
SelectClick ==
    /\ pc = "select_click"
    /\ Wait(element_to_be_clickable(ui, "select"), "select_wait")
    /\ ui' = IF element_to_be_clickable(ui, "select")
             THEN [ui EXCEPT !.select_clicked = TRUE] ELSE ui
    /\ nav' = IF element_to_be_clickable(ui, "select") THEN Click(nav, "select") ELSE nav
    /\ UNCHANGED <<mainFrame, navigated, race>>

SelectWait ==
    /\ pc = "select_wait"
    /\ Wait(select_is_active(ui), "panel_check")
    /\ nav' = IF select_is_active(ui)
              THEN Enter("DevicesSelected", ui.select_active) ELSE nav
    /\ UNCHANGED <<mainFrame, navigated, ui, race>>

\* ensure_settings_panel_open
PanelCheck ==
    /\ pc = "panel_check"
    /\ IF presence_of_element_located(ui, "panel")
       THEN /\ pc' = "export_click"
            /\ nav' = [Enter("SettingsPanelOpen", ui.el["panel"] # "absent")
                         EXCEPT !.panel_at_start = ui.panel_open]
       ELSE /\ pc' = "panel_toggle"
            /\ nav' = [nav EXCEPT !.panel_at_start = ui.panel_open]
    /\ UNCHANGED <<mainFrame, navigated, ui, race, exc, stdout>>

PanelToggle ==
    /\ pc = "panel_toggle"
    /\ Wait(element_to_be_clickable(ui, "toggle"), "panel_wait")
    /\ ui' = IF element_to_be_clickable(ui, "toggle")
             THEN [ui EXCEPT !.panel_open = ~@] ELSE ui
    /\ nav' = IF element_to_be_clickable(ui, "toggle") THEN Click(nav, "toggle") ELSE nav
    /\ UNCHANGED <<mainFrame, navigated, race>>

PanelWait ==
    /\ pc = "panel_wait"
    /\ Wait(presence_of_element_located(ui, "panel"), "export_click")
    /\ nav' = IF presence_of_element_located(ui, "panel")
              THEN Enter("SettingsPanelOpen", ui.el["panel"] # "absent") ELSE nav
    /\ UNCHANGED <<mainFrame, navigated, ui, race>>

\* start_excel_download
ExportClick ==
    /\ pc = "export_click"
    /\ Wait(element_to_be_clickable(ui, "export"), "download_click")
    /\ ui' = IF element_to_be_clickable(ui, "export")
             THEN [ui EXCEPT !.stage = "export_clicked"] ELSE ui
    /\ nav' = IF element_to_be_clickable(ui, "export")
              THEN Click(Enter("ExportTriggered", ui.el["export"] = "clickable"), "export")
              ELSE nav
    /\ UNCHANGED <<mainFrame, navigated, race>>

DownloadClick ==
    /\ pc = "download_click"
    /\ Wait(element_to_be_clickable(ui, "download"), "confirm_click")
    /\ ui' = IF element_to_be_clickable(ui, "download")
             THEN [ui EXCEPT !.stage = "download_clicked"] ELSE ui
    /\ nav' = IF element_to_be_clickable(ui, "download") THEN Click(nav, "download") ELSE nav
    /\ UNCHANGED <<mainFrame, navigated, race>>

ConfirmClick ==
    /\ pc = "confirm_click"
    /\ Wait(element_to_be_clickable(ui, "confirm"), "confirm_wait")
    /\ ui' = IF element_to_be_clickable(ui, "confirm")
             THEN [ui EXCEPT !.stage = "confirmed"] ELSE ui
    /\ nav' = IF element_to_be_clickable(ui, "confirm")
              THEN Click(Enter("DownloadConfirmed", ui.el["confirm"] = "clickable"), "confirm")
              ELSE nav
    /\ UNCHANGED <<mainFrame, navigated, race>>

ConfirmWait ==
    /\ pc = "confirm_wait"
    /\ Wait(confirm_gone(ui), "sleep")
    /\ nav' = IF confirm_gone(ui)
              THEN Enter("Downloading", ui.el["confirm"] = "absent") ELSE nav
    /\ UNCHANGED <<mainFrame, navigated, ui, race>>

\* time.sleep(15), the return to main() and its print.
Sleep ==
    /\ pc = "sleep"
    /\ nav' = Enter("Done", TRUE)
    /\ stdout' = Append(stdout, "Zapros na skachivanie Excel otpravlen.")
    /\ pc' = "finally"
    /\ UNCHANGED <<mainFrame, navigated, ui, race, exc>>

\* A main() whose driver.quit() stands at the end of the try block instead of
\* in the finally clause.
FinallyQuitOnSuccessOnly ==
    /\ pc = "finally"
    /\ stdout' = IF keep_open
                 THEN Append(stdout, "Ostavlyayu brauzer otkrytym na 15 sekund.")
                 ELSE stdout
    /\ driver' = IF exc = "none" THEN "closed" ELSE driver
    /\ quits' = IF exc = "none" THEN quits + 1 ELSE quits
    /\ pc' = "analyze_find"
    /\ UNCHANGED <<envVars, botVars, analysisVars, exc, navigated, ui, race, nav,
                   files, returncode>>

\* The finally clause of main(): the optional keep-open delay, driver.quit().
Finally ==
    /\ pc = "finally"
    /\ stdout' = IF keep_open
                 THEN Append(stdout, "Ostavlyayu brauzer otkrytym na 15 sekund.")
                 ELSE stdout
    /\ driver' = "closed"
    /\ quits' = quits + 1
    /\ pc' = "analyze_find"
    /\ UNCHANGED <<envVars, botVars, analysisVars, exc, navigated, ui, race, nav,
                   files, returncode>>

(***************************************************************************)
(* The sheets the modelled files hold, and load_workbook.                  *)
(***************************************************************************)
\* A row of the given width with the client label in column I (0-based 8)
\* and the hashrate in column O (0-based 14); the other cells are empty.
Row(width, client, hashrate) ==
    [i \in 1..width |-> IF i = 9 THEN client ELSE IF i = 15 THEN hashrate ELSE PyNone]

Label(k) == client_mapping[k][1]

Workbook(sheet) ==
    CASE sheet = "fleet" ->
           <<Row(15, PyStr(Label(1)), PyInt(500)),
             Row(15, PyStr(Label(1)), PyInt(1500)),
             Row(15, PyStr(Label(3)), PyInt(900))>>
      [] sheet = "stale" ->
           <<Row(15, PyStr(Label(4)),
                 PyStr(<<"1", "2", "3", "4", ",", "5", " ", "D", "z", "h">>))>>
      [] sheet = "empty" -> <<>>

\* load_workbook(path) and ws.iter_rows(min_row=2, values_only=True).
load_workbook(dir, path) ==
    IF dir[path].sheet = "corrupt" THEN [exc |-> "InvalidFileException"]
    ELSE [exc |-> "none", v |-> Workbook(dir[path].sheet)]

(***************************************************************************)
(* analyze_and_report(), called by main() after the finally clause.        *)
(***************************************************************************)
analysisFrame == <<envVars, botVars, exc, driver, quits, navigated, ui, race, nav,
                   files, returncode>>

AnalyzeFind ==
    /\ pc = "analyze_find"
    /\ \E r \in find_latest_excel(files) :
         /\ excel_path' = r
         /\ IF r.exc # "none"
            THEN /\ stdout' = Append(stdout, "Oshibka: Excel fayl ne nayden v direktorii skripta.")
                 /\ pc' = "exit"
            ELSE /\ stdout' = Append(stdout, "Analiziruyu fayl")
                 /\ pc' = "analyze_parse"
    /\ UNCHANGED <<analysisFrame, all_rows, devices_by_client>>

\* load_workbook and parse_excel_devices: the dict or the exception.
load_and_parse(dir, path) ==
    IF load_workbook(dir, path).exc # "none" THEN load_workbook(dir, path)
    ELSE parse_excel_devices(load_workbook(dir, path).v)

loaded_rows(dir, path, old) ==
    IF load_workbook(dir, path).exc = "none" THEN load_workbook(dir, path).v ELSE old

AnalyzeParsed(parsed) ==
    IF parsed.exc # "none"
    THEN /\ stdout' = Append(stdout, "Oshibka pri analize fayla: " \o parsed.exc)
         /\ pc' = "exit"
         /\ UNCHANGED devices_by_client
    ELSE /\ devices_by_client' = parsed.v
         /\ IF DOMAIN parsed.v = {}
            THEN /\ stdout' = Append(stdout, "Ustroystva ne naydeny v fayle.")
                 /\ pc' = "exit"
            ELSE /\ stdout' = stdout
                 /\ pc' = "analyze_report"

AnalyzeParse ==
    /\ pc = "analyze_parse"
    /\ all_rows' = loaded_rows(files, excel_path.v, all_rows)
    /\ AnalyzeParsed(load_and_parse(files, excel_path.v))
    /\ UNCHANGED <<analysisFrame, excel_path>>

AnalyzeReport ==
    /\ pc = "analyze_report"
    /\ stdout' = stdout \o generate_report(devices_by_client)
    /\ pc' = "exit"
    /\ UNCHANGED <<analysisFrame, analysisVars>>

\* main() returns; the interpreter exits with status 0.
Exit ==
    /\ pc = "exit"
    /\ returncode' = <<0>>
    /\ pc' = "done"
    /\ UNCHANGED <<envVars, botVars, analysisVars, exc, driver, quits, navigated,
                   ui, race, nav, files, stdout>>

(***************************************************************************)
(* The environment: the dashboard's pages and the download.                *)
(***************************************************************************)
\* The elements whose state the code reads at the given position.
Awaited(p) ==
    CASE p = "login_username" -> {"username"}
      [] p = "login_password" -> {"password"}
      [] p \in {"login_submit", "login_enabled"} -> {"submit"}
      [] p \in {"open_wait", "select_click", "select_wait"} -> {"select", "panel"}
      [] p \in {"panel_check", "panel_wait"} -> {"panel"}
      [] p = "panel_toggle" -> {"toggle", "panel"}
      [] p = "export_click" -> {"export"}
      [] p = "download_click" -> {"download"}
      [] p \in {"confirm_click", "confirm_wait"} -> {"confirm"}
      [] OTHER -> {}

pageFrame == <<envVars, botVars, analysisVars, pc, exc, driver, quits, navigated,
               nav, files, stdout, returncode>>

\* An element that is due appears in the DOM.
Render ==
    /\ driver = "open"
    /\ \E e \in Awaited(pc) :
         /\ ui.el[e] = "absent"
         /\ Due(ui, e)
         /\ ui' = [ui EXCEPT !.el[e] = "present"]
    /\ UNCHANGED <<pageFrame, race>>

\* An element in the DOM becomes displayed and enabled.
Enable ==
    /\ driver = "open"
    /\ \E e \in Awaited(pc) \ {"panel"} :
         /\ ui.el[e] = "present"
         /\ Due(ui, e)
         /\ ui' = [ui EXCEPT !.el[e] = "clickable"]
    /\ UNCHANGED <<pageFrame, race>>

\* An element that is no longer due leaves the DOM.
Vanish ==
    /\ driver = "open"
    /\ \E e \in Awaited(pc) :
         /\ ui.el[e] # "absent"
         /\ ~Due(ui, e)
         /\ ui' = [ui EXCEPT !.el[e] = "absent"]
    /\ UNCHANGED <<pageFrame, race>>

\* The click on the select control takes effect.
ActivateSelect ==
    /\ driver = "open"
    /\ pc = "select_wait"
    /\ ui.select_clicked /\ ~ui.select_active
    /\ ui' = [ui EXCEPT !.select_active = TRUE]
    /\ UNCHANGED <<pageFrame, race>>

\* After the form is submitted the site redirects to the dashboard.
Redirect ==
    /\ driver = "open"
    /\ pc \in {"login_race", "login_check"}
    /\ ui.submitted /\ ui.url = "signin"
    /\ ui' = [ui EXCEPT !.url = "dashboard",
                        !.el = [e \in Elements |-> "absent"]]
    /\ race' = [race EXCEPT !.first = IF @ = "none" THEN "redirect" ELSE @]
    /\ UNCHANGED pageFrame

\* The page shows an element of class ant-alert-error.
ShowAlert ==
    /\ driver = "open"
    /\ pc \in {"login_race", "login_check"}
    /\ ui.submitted /\ ~ui.alert
    /\ ui' = [ui EXCEPT !.alert = TRUE]
    /\ race' = [race EXCEPT !.first = IF @ = "none" THEN "error" ELSE @]
    /\ UNCHANGED pageFrame

\* The server has built the file and the browser has saved it.
NewFile == <<"n", "e", "w", ".", "x", "l", "s", "x">>
OldFile == <<"o", "l", "d", ".", "x", "l", "s", "x">>

DownloadCompletes ==
    /\ driver = "open"
    /\ ui.stage = "confirmed"
    /\ NewFile \notin DOMAIN files
    /\ \E sheet \in {"fleet", "empty"} :
         files' = [f \in DOMAIN files \cup {NewFile} |->
                     IF f = NewFile THEN [ctime |-> 2, sheet |-> sheet] ELSE files[f]]
    /\ UNCHANGED <<envVars, botVars, analysisVars, pc, exc, driver, quits,
                   navigated, ui, race, nav, stdout, returncode>>

(***************************************************************************)
(* bot.py: the /report handler.                                            *)
(***************************************************************************)
Reply(kind, text) == Append(replies, [kind |-> kind, text |-> text])

botFrame == <<envVars, exc, driver, quits, navigated, ui, race, nav, files, stdout>>

\* The first reply and subprocess.run([python, main.py, "--headless"]).
BotSpawn ==
    /\ botpc = "start"
    /\ replies' = Reply("info", <<"Nachinayu skachivanie fayla s ustroystvami...">>)
    /\ botpc' = "wait"
    /\ pc' = "build_driver"
    /\ UNCHANGED <<botFrame, analysisVars, report_text, returncode>>

\* subprocess.run's timeout=300 expires: the child is killed and
\* TimeoutExpired is raised.
BotTimeout ==
    /\ botpc = "wait"
    /\ returncode = <<>>
    /\ pc' = "killed"
    /\ returncode' = <<-9>>
    /\ replies' = Reply("error", <<"Oshibka: prevysheno vremya ozhidaniya pri skachivanii fayla">>)
    /\ botpc' = "done"
    /\ UNCHANGED <<botFrame, analysisVars, report_text>>

\* subprocess.run returns: "if result.returncode != 0".
subprocess_failed(rc) == rc # <<0>>

BotCheck ==
    /\ botpc = "wait"
    /\ returncode # <<>>
    /\ IF subprocess_failed(returncode)
       THEN /\ replies' = Reply("error", <<"Oshibka pri skachivanii fayla">>)
            /\ botpc' = "done"
       ELSE /\ replies' = Reply("info", <<"Analiziruyu zagruzhennyy fayl...">>)
            /\ botpc' = "find"
    /\ UNCHANGED <<botFrame, analysisVars, report_text, pc, returncode>>

BotFind ==
    /\ botpc = "find"
    /\ \E r \in find_latest_excel(files) :
         /\ excel_path' = r
         /\ IF r.exc # "none"
            THEN /\ replies' = Reply("error", <<"Oshibka: Excel fayl ne nayden v direktorii skripta.">>)
                 /\ botpc' = "done"
            ELSE /\ botpc' = "parse"
                 /\ UNCHANGED replies
    /\ UNCHANGED <<botFrame, all_rows, devices_by_client, report_text, pc, returncode>>

BotParsed(parsed) ==
    IF parsed.exc # "none"
    THEN /\ replies' = Reply("error", <<"Oshibka pri analize fayla: " \o parsed.exc>>)
         /\ botpc' = "done"
         /\ UNCHANGED devices_by_client
    ELSE /\ devices_by_client' = parsed.v
         /\ IF DOMAIN parsed.v = {}
            THEN /\ replies' = Reply("error", <<"Ustroystva ne naydeny v fayle.">>)
                 /\ botpc' = "done"
            ELSE /\ replies' = replies
                 /\ botpc' = "format"

BotParse ==
    /\ botpc = "parse"
    /\ all_rows' = loaded_rows(files, excel_path.v, all_rows)
    /\ BotParsed(load_and_parse(files, excel_path.v))
    /\ UNCHANGED <<botFrame, excel_path, report_text, pc, returncode>>

\* format_report and the replies that carry it.  The report of the seven
\* segments stays far below the 4096-character limit, so it is one message.
BotFormat ==
    /\ botpc = "format"
    /\ report_text' = format_report(devices_by_client)
    /\ replies' = Append(Reply("report", format_report(devices_by_client)),
                         [kind |-> "info", text |-> <<"Otchyot gotov!">>])
    /\ botpc' = "done"
    /\ UNCHANGED <<botFrame, analysisVars, pc, returncode>>

(***************************************************************************)
(* The pipeline: one run of main.py, by hand or under the /report handler. *)
(***************************************************************************)
CredentialValues == {"unset", "empty", "set"}

\* What the script directory holds before the run: nothing, or a file of an
\* earlier run.
InitialDirs ==
    {<<>>} \cup {[f \in {OldFile} |-> [ctime |-> 1, sheet |-> sh]] :
                   sh \in {"stale", "corrupt"}}

Init ==
    /\ mode \in {"cli", "bot"}
    /\ environ \in [login : CredentialValues, password : CredentialValues]
    /\ keep_open \in (IF mode = "cli" THEN BOOLEAN ELSE {FALSE})
    /\ pc = IF mode = "cli" THEN "build_driver" ELSE "not_started"
    /\ botpc = IF mode = "cli" THEN "none" ELSE "start"
    /\ exc = "none"
    /\ driver = "none"
    /\ quits = 0
    /\ navigated = <<>>
    /\ ui = BlankUi
    /\ race = [first |-> "none", result |-> "none", outcome |-> "none"]
    /\ nav = [trace |-> <<>>, held |-> {}, clicks |-> [e \in Elements |-> 0],
              panel_at_start |-> FALSE]
    /\ files \in InitialDirs
    /\ excel_path = [exc |-> "unset"]
    /\ all_rows = <<>>
    /\ devices_by_client = <<>>
    /\ report_text = <<>>
    /\ stats_by_client = <<>>
    /\ stdout = <<>>
    /\ returncode = <<>>
    /\ replies = <<>>

Next ==
    \/ BuildDriver \/ ReadCredentials
    \/ LoginGet \/ LoginUsername \/ LoginPassword \/ LoginSubmit \/ LoginEnabled
    \/ LoginRace \/ LoginCheck
    \/ OpenGet \/ OpenWait \/ SelectClick \/ SelectWait
    \/ PanelCheck \/ PanelToggle \/ PanelWait
    \/ ExportClick \/ DownloadClick \/ ConfirmClick \/ ConfirmWait \/ Sleep
    \/ Finally \/ AnalyzeFind \/ AnalyzeParse \/ AnalyzeReport \/ Exit
    \/ Render \/ Enable \/ Vanish \/ ActivateSelect \/ Redirect \/ ShowAlert
    \/ DownloadCompletes
    \/ BotSpawn \/ BotTimeout \/ BotCheck \/ BotFind \/ BotParse \/ BotFormat

Spec == Init /\ [][Next]_vars

(***************************************************************************)
(* Properties of the pipeline (specification Spec).                        *)
(***************************************************************************)
ReportHeading == "OTCHYOT PO USTROYSTVAM"

\* main.py printed a report / the handler sent one.
ReportPrinted == \E i \in 1..Len(stdout) : stdout[i] = ReportHeading
ReportSent == \E i \in 1..Len(replies) : replies[i].kind = "report"

\* analyze_and_report() or the handler's analysis has called find_latest_excel.
AnalysisExecuted == excel_path.exc # "unset"

\* C1: when authentication or an export step failed (an exception reached
\* main()'s except clause), the analysis phase is not executed afterwards and
\* no report is emitted, neither by main() nor by the /report handler.
C1_FailureAbortsPipeline ==
    exc # "none" => ~AnalysisExecuted /\ ~ReportPrinted /\ ~ReportSent

AnalysisPositions == {"analyze_find", "analyze_parse", "analyze_report", "exit", "done"}

C3_NoBrowserWithoutCredentials ==
    credentials_missing(environ) => driver = "none" /\ navigated = <<>>

\* C4: perform_login raises the authentication error if and only if the error
\* indicator was the first of the two markers to appear, and returns normally
\* when the redirect marker was.
C4_FirstToAppearWins ==
    race.outcome # "none" =>
        (race.outcome = "AuthenticationError" <=> race.first = "error")

IsPrefix(s, t) == Len(s) <= Len(t) /\ SubSeq(t, 1, Len(s)) = s

\* C5: the Export Navigator enters its states in the order PageLoaded,
\* DevicesSelected, SettingsPanelOpen, ExportTriggered, DownloadConfirmed,
\* Downloading, Done; each only when the readiness predicate that gates it
\* was true of the page; no state is entered twice and no control is clicked
\* twice; and after a predicate timeout Done is not reached.
C5_NavigatorOrder ==
    /\ IsPrefix(nav.trace, NavOrder)
    /\ \A i \in 1..Len(nav.trace) : nav.trace[i] \in nav.held
    /\ \A e \in Elements : nav.clicks[e] <= 1
    /\ exc # "none" => (Len(nav.trace) < Len(NavOrder) /\ pc \notin {"sleep"})

\* The export ran through all seven states.
C5_Witness == nav.trace = NavOrder /\ exc = "none" /\ pc = "done"

(***************************************************************************)
(* Specifications that apply the pure functions to bounded inputs.  The    *)
(* variables of the pipeline keep their initial values in them.            *)
(***************************************************************************)
PureInit(position) ==
    /\ mode = "cli"
    /\ environ = [login |-> "set", password |-> "set"]
    /\ keep_open = FALSE
    /\ pc = position
    /\ botpc = "none"
    /\ exc = "none"
    /\ driver = "none"
    /\ quits = 0
    /\ navigated = <<>>
    /\ ui = BlankUi
    /\ race = [first |-> "none", result |-> "none", outcome |-> "none"]
    /\ nav = [trace |-> <<>>, held |-> {}, clicks |-> [e \in Elements |-> 0],
              panel_at_start |-> FALSE]
    /\ excel_path = [exc |-> "unset"]
    /\ report_text = <<>>
    /\ stats_by_client = <<>>
    /\ stdout = <<>>
    /\ returncode = <<>>
    /\ replies = <<>>

pureFrame == <<mode, environ, keep_open, botpc, driver, quits, navigated, ui, race,
               nav, returncode, replies>>

(***************************************************************************)
(* find_latest_excel on every directory over ResolverNames.                *)
(***************************************************************************)
MaxCtime == 3

\* File names of the modelled directories.
A_XLSX == <<"a", ".", "x", "l", "s", "x">>
B_XLSX == <<"b", ".", "x", "l", "s", "x">>
TEMP_XLSX == <<"~", "$", "c", ".", "x", "l", "s", "x">>
HIDDEN_XLSX == <<".", "d", ".", "x", "l", "s", "x">>
E_CSV == <<"e", ".", "c", "s", "v">>
TILDE_XLSX == <<"~", "f", ".", "x", "l", "s", "x">>

ResolverNames ==
    {A_XLSX, B_XLSX, TEMP_XLSX, HIDDEN_XLSX, E_CSV, TILDE_XLSX}

ResolverDirs ==
    UNION {[S -> [ctime : 1..MaxCtime, sheet : {"empty"}]] : S \in SUBSET ResolverNames}

InitResolver ==
    /\ PureInit("resolve")
    /\ files \in ResolverDirs
    /\ all_rows = <<>>
    /\ devices_by_client = <<>>

Resolve ==
    /\ pc = "resolve"
    /\ \E r \in find_latest_excel(files) : excel_path' = r
    /\ pc' = "resolved"
    /\ UNCHANGED <<pureFrame, exc, files, all_rows, devices_by_client, report_text,
                   stats_by_client, stdout>>

SpecResolver == InitResolver /\ [][Resolve]_vars

\* The files of the expected extension whose name does not carry the
\* temp-file marker.
HasExtension(f) == Len(f) >= 5 /\ SubSeq(f, Len(f) - 4, Len(f)) = <<".", "x", "l", "s", "x">>
HasTempMarker(f) == Len(f) >= 2 /\ f[1] = "~" /\ f[2] = "$"
StatedCandidates == {f \in DOMAIN files : HasExtension(f) /\ ~HasTempMarker(f)}

NewestOf(cands) ==
    IF cands = {} THEN excel_path = [exc |-> "FileNotFoundError"]
    ELSE /\ excel_path.exc = "none"
         /\ excel_path.v \in cands
         /\ \A g \in cands : files[g].ctime <= files[excel_path.v].ctime

\* C6 as stated: find_latest_excel returns the file of maximum creation
\* timestamp among the files of the expected extension without the temp-file
\* marker, and fails with not-found exactly when there is no such file.
C6_NewestCandidate == pc = "resolved" => NewestOf(StatedCandidates)

\* C6 as amended: the same, among the files whose name in addition does not
\* begin with a dot (the pattern "*.xlsx" does not match such names).
C6_NewestVisibleCandidate ==
    pc = "resolved" => NewestOf({f \in StatedCandidates : f[1] # "."})

\* A temp-marked file is the newest of the directory and another file is
\* returned.
C6_Witness ==
    /\ pc = "resolved"
    /\ excel_path.exc = "none"
    /\ \E t \in DOMAIN files :
         HasTempMarker(t) /\ HasExtension(t) /\ files[t].ctime > files[excel_path.v].ctime
    /\ \E g \in DOMAIN files : g # excel_path.v /\ g \in StatedCandidates

(***************************************************************************)
(* parse_excel_devices on sheets whose client cells are the mapped labels  *)
(* and their near misses.                                                  *)
(***************************************************************************)
MaxRows == 2

LowerCase == <<"a", "b", "c", "d", "e", "f", "g", "h", "i", "j", "k", "l", "m", "n", "o", "p", "q", "r", "s", "t", "u", "v", "w", "x", "y", "z">>
UpperCase == <<"A", "B", "C", "D", "E", "F", "G", "H", "I", "J", "K", "L", "M", "N", "O", "P", "Q", "R", "S", "T", "U", "V", "W", "X", "Y", "Z">>

SwapCase(c) ==
    IF \E i \in 1..26 : LowerCase[i] = c
    THEN UpperCase[CHOOSE i \in 1..26 : LowerCase[i] = c]
    ELSE IF \E i \in 1..26 : UpperCase[i] = c
    THEN LowerCase[CHOOSE i \in 1..26 : UpperCase[i] = c]
    ELSE c

\* The label with the case of its 7th character (the k of "kompaniya")
\* changed.
OtherCase(label) == [i \in 1..Len(label) |-> IF i = 7 THEN SwapCase(label[i]) ELSE label[i]]

\* A label and strings close to it: padded with whitespace, a proper
\* substring, two superstrings, another letter case.
NearMisses(label) ==
    {label,
     <<" ">> \o label \o <<" ", "\t">>,
     SubSeq(label, 1, Len(label) - 1),
     label \o <<"x">>,
     <<"x", " ">> \o label,
     OtherCase(label)}

\* The labels whose near misses are tried: L7, S19 and "Nasha Kompaniya 2".
VariedLabels == {1, 5, 6}

ClientCells ==
    {PyStr(Label(k)) : k \in 1..Len(client_mapping)}
    \cup {PyStr(v) : v \in UNION {NearMisses(Label(k)) : k \in VariedLabels}}
    \cup {PyNone, PyInt(2), PyStr(<<>>)}

\* Widths of a sheet: without column I, without column O, with both.
SheetWidths == {8, 9, 15}

ExtractSheets ==
    UNION {[1..n -> {Row(w, c, PyInt(500)) : c \in ClientCells}] :
             n \in 0..MaxRows, w \in SheetWidths}

InitExtract ==
    /\ PureInit("parse")
    /\ files = <<>>
    /\ all_rows \in ExtractSheets
    /\ devices_by_client = <<>>

ParseApply(parsed) ==
    IF parsed.exc # "none"
    THEN exc' = parsed.exc /\ UNCHANGED devices_by_client
    ELSE devices_by_client' = parsed.v /\ UNCHANGED exc

Parse ==
    /\ pc = "parse"
    /\ ParseApply(parse_excel_devices(all_rows))
    /\ pc' = "parsed"
    /\ UNCHANGED <<pureFrame, files, excel_path, all_rows, report_text,
                   stats_by_client, stdout>>

SpecExtract == InitExtract /\ [][Parse]_vars

\* The row's client-label cell, trimmed, is exactly the label.
StatedMatch(row, label) ==
    Len(row) >= 9 /\ row[9].t = "str" /\ strip(row[9].s) = label

RECURSIVE StatedCells(_, _)
StatedCells(rows, label) ==
    IF rows = <<>> THEN <<>>
    ELSE (IF StatedMatch(Head(rows), label) THEN <<Head(rows)[9]>> ELSE <<>>)
         \o StatedCells(Tail(rows), label)

NamesOf(devices) == [i \in 1..Len(devices) |-> devices[i].name]

\* C7: a row is placed in segment K if and only if its client-label cell,
\* trimmed of leading and trailing whitespace, equals the raw label mapped to
\* K character for character; no row is placed in two segments.
C7_ExactTrimmedMatch ==
    pc = "parsed" =>
        /\ exc = "none"
        /\ \A k \in 1..Len(client_mapping) :
             NamesOf(dict_get(devices_by_client, client_mapping[k][2]))
                 = StatedCells(all_rows, client_mapping[k][1])
        /\ \A i \in 1..Len(all_rows) :
             Cardinality({k \in 1..Len(client_mapping) :
                            \E j \in 1..Len(dict_get(devices_by_client, client_mapping[k][2])) :
                                /\ StatedMatch(all_rows[i], client_mapping[k][1])
                                /\ dict_get(devices_by_client, client_mapping[k][2])[j].name
                                     = all_rows[i][9]}) <= 1

\* A padded label was placed in its segment and a superstring of a label was
\* placed nowhere.
C7_Witness ==
    /\ pc = "parsed"
    /\ Len(all_rows) = 2
    /\ Len(all_rows[1]) = 15
    /\ all_rows[1][9] = PyStr(<<" ">> \o Label(1) \o <<" ", "\t">>)
    /\ all_rows[2][9] = PyStr(Label(5) \o <<"x">>)
    /\ DOMAIN devices_by_client = {"L7"}
    /\ Len(devices_by_client["L7"]) = 1

(***************************************************************************)
(* parse_excel_devices on a sheet of two matching rows, the first with     *)
(* every hashrate cell up to MaxCellLen characters.                        *)
(***************************************************************************)
MaxCellLen == 3

HashAlphabet == {"1", "5", ",", ".", "-", " ", "D"}

HashCells ==
    {PyStr(t) : t \in UNION {[1..n -> HashAlphabet] : n \in 0..MaxCellLen}}
    \cup {PyNone, PyInt(-5), PyInt(0), PyInt(1500)}

HashrateSheets ==
    {<<Row(w, PyStr(Label(1)), h), Row(w, PyStr(Label(3)), PyInt(900))>> :
        h \in HashCells, w \in {9, 15}}

InitHashrate ==
    /\ PureInit("parse")
    /\ files = <<>>
    /\ all_rows \in HashrateSheets
    /\ devices_by_client = <<>>

SpecHashrate == InitHashrate /\ [][Parse]_vars

\* parse_excel_devices did not raise and extracted both rows.
BothRowsExtracted ==
    /\ exc = "none"
    /\ DOMAIN devices_by_client = {"L7", "WM"}
    /\ Len(devices_by_client["L7"]) = 1
    /\ Len(devices_by_client["WM"]) = 1

\* C8: whatever the hashrate cell holds, parse_excel_devices does not raise,
\* the other row is extracted as well, and every stored hashrate is >= 0.
C8_HashrateNonNegative ==
    pc = "parsed" =>
        /\ BothRowsExtracted
        /\ \A key \in DOMAIN devices_by_client :
             \A i \in 1..Len(devices_by_client[key]) :
                 RatLeq(Zero, devices_by_client[key][i].hashrate)

\* The part of C8 that the code satisfies: no exception, no lost row.
C8_NeverRaises == pc = "parsed" => BothRowsExtracted

(***************************************************************************)
(* calculate_stats, format_report and generate_report on bounded mappings. *)
(***************************************************************************)
MaxDevices == 2

\* Normalised hashrates of the modelled records: 0.5 and 0.9.
HashrateValues == {Rat(1, 2), Rat(9, 10)}

Device(key, h) == [name |-> PyStr(label_of(key)), hashrate |-> h]

\* The lists of up to MaxDevices records of a segment (the empty one stands
\* for a key that is absent from the mapping).
DeviceLists(key) ==
    UNION {[1..n -> {Device(key, h) : h \in HashrateValues}] : n \in 0..MaxDevices}

FamilyKeys == {"S19", "S19_dop", "S19_emcd"}

\* The mapping with the S19-family lists fam, and the other segments present
\* or not: L7 with 0.5 and 1.5, L9 with an empty list, WM and T21 with 0.9.
ReportInput(fam, others) ==
    [key \in {k \in FamilyKeys : fam[k] # <<>>} \cup others |->
        CASE key \in FamilyKeys -> fam[key]
          [] key = "L7" -> <<Device("L7", Rat(1, 2)), Device("L7", Rat(3, 2))>>
          [] key = "L9" -> <<>>
          [] OTHER -> <<Device(key, Rat(9, 10))>>]

FamilyLists ==
    {[key \in FamilyKeys |->
         CASE key = "S19" -> a [] key = "S19_dop" -> b [] OTHER -> c] :
        a \in DeviceLists("S19"), b \in DeviceLists("S19_dop"),
        c \in DeviceLists("S19_emcd")}

\* The other segments that are present together.
OtherSegments == {{}, {"L7", "WM"}, {"L9", "T21"}, {"L7", "L9", "WM", "T21"}}

ReportInputs ==
    {ReportInput(fam, others) : fam \in FamilyLists, others \in OtherSegments}

InitReport ==
    /\ PureInit("report_input")
    /\ files = <<>>
    /\ all_rows = <<>>
    /\ devices_by_client \in ReportInputs

reportFrame == <<pureFrame, exc, files, excel_path, all_rows, devices_by_client>>

Stats ==
    /\ pc = "report_input"
    /\ stats_by_client' =
         [key \in DOMAIN devices_by_client |-> calculate_stats(devices_by_client[key])]
    /\ pc' = "stats"
    /\ UNCHANGED <<reportFrame, report_text, stdout>>

Format ==
    /\ pc = "stats"
    /\ report_text' = format_report(devices_by_client)
    /\ pc' = "formatted"
    /\ UNCHANGED <<reportFrame, stats_by_client, stdout>>

Generate ==
    /\ pc = "formatted"
    /\ stdout' = generate_report(devices_by_client)
    /\ pc' = "generated"
    /\ UNCHANGED <<reportFrame, stats_by_client, report_text>>

NextReport == Stats \/ Format \/ Generate

SpecReport == InitReport /\ [][NextReport]_vars

\* The sum of the hashrates of the first i records.
RECURSIVE StatedSum(_, _)
StatedSum(devices, i) ==
    IF i = 0 THEN [n |-> 0, d |-> 1]
    ELSE LET s == StatedSum(devices, i - 1)
             h == devices[i].hashrate
         IN  Rat(s.n * h.d + h.n * s.d, s.d * h.d)

SameValue(a, b) == a.n * b.d = b.n * a.d

\* C9: calculate_stats returns count = number of records, total_hashrate =
\* sum of the hashrates and avg_hashrate = total_hashrate / count for a
\* non-empty list, and 0 for all three for the empty list.
C9_StatsOfList ==
    pc # "report_input" =>
        \A key \in DOMAIN devices_by_client :
            LET devices == devices_by_client[key]
                st == stats_by_client[key]
            IN  /\ st.count = Len(devices)
                /\ SameValue(st.total_hashrate, StatedSum(devices, Len(devices)))
                /\ IF devices = <<>>
                   THEN st.total_hashrate.n = 0 /\ st.avg_hashrate.n = 0
                   ELSE st.avg_hashrate.n * st.count * st.total_hashrate.d
                          = st.total_hashrate.n * st.avg_hashrate.d

\* The statistics of a list of two different hashrates and of the empty list
\* have been computed.
C9_Witness ==
    /\ pc = "stats"
    /\ "L9" \in DOMAIN stats_by_client /\ stats_by_client["L9"].count = 0
    /\ "S19" \in DOMAIN stats_by_client
    /\ stats_by_client["S19"].count = 2
    /\ stats_by_client["S19"].avg_hashrate = Rat(7, 10)

\* The records of the S19 family, in the order of btc_clients_order.
StatedFamily(d) ==
    dict_get(d, "S19") \o dict_get(d, "S19_dop") \o dict_get(d, "S19_emcd")

\* The records of the five BTC segments.
StatedBtcRecords(d) == dict_get(d, "WM") \o dict_get(d, "T21") \o StatedFamily(d)

RECURSIVE StatedSegmentLines(_, _)
StatedSegmentLines(d, i) ==
    IF i > Len(btc_clients_order) THEN <<>>
    ELSE (IF dict_get(d, btc_clients_order[i][1]) = <<>> THEN <<>>
          ELSE <<segment_line(btc_clients_order[i][2],
                              dict_get(d, btc_clients_order[i][1]))>>)
         \o StatedSegmentLines(d, i + 1)

\* The BTC section as stated: the individual lines, the combined line exactly
\* when the family has a record, the total of the five segments only.
StatedBtcSection(d) ==
    StatedSegmentLines(d, 1)
    \o (IF StatedFamily(d) # <<>> THEN <<s19_line(StatedFamily(d))>> ELSE <<>>)
    \o <<"ITOG BTC "
         \o ToString(py_round(StatedSum(StatedBtcRecords(d), Len(StatedBtcRecords(d)))))>>

\* The lines of text that end with the blank line after the BTC section.
EndsWithSection(text, section) ==
    /\ Len(text) > Len(section)
    /\ text[Len(text)] = ""
    /\ SubSeq(text, Len(text) - Len(section), Len(text) - 1) = section
    /\ text[Len(text) - Len(section) - 1] = ""

\* C10: in the report of bot.py and in the one of main.py, the BTC total line
\* is the rounded sum of the total hashrates of WM, T21, S19, S19_dop and
\* S19_emcd only; the combined "Srednee S19" line comes after the individual
\* lines exactly when the S19 family has a record, pools exactly the records
\* of S19, S19_dop and S19_emcd, and adds nothing to the total.
C10_BtcTotalExcludesCombined ==
    /\ pc \in {"formatted", "generated"} =>
           EndsWithSection(report_text, StatedBtcSection(devices_by_client))
    /\ pc = "generated" =>
           EndsWithSection(stdout, StatedBtcSection(devices_by_client))

\* A report with a combined line whose family total is not zero.
C10_Witness ==
    /\ pc = "generated"
    /\ Len(StatedFamily(devices_by_client)) = 3
    /\ "WM" \in DOMAIN devices_by_client
    /\ report_text[Len(report_text) - 1] = "ITOG BTC 3"

(***************************************************************************)
(* parse_excel_devices followed by format_report and generate_report, on   *)
(* sheets of L7 and WM rows.                                               *)
(***************************************************************************)
MaxSheetRows == 3

\* The label the stated example gives to the WM rows; client_mapping has no
\* entry for it.
SHORT_WM_LABEL ==
    <<"N", "a", "s", "h", "a", " ", "k", "o", "m", "p", "a", "n", "i", "y", "a",
      " ", "W", "M">>

EndToEndLabels == {Label(1), Label(3), SHORT_WM_LABEL}

EndToEndValues == {500, 900, 1500}

EndToEndSheets ==
    UNION {[1..n -> {Row(15, PyStr(l), PyInt(v)) :
                        l \in EndToEndLabels, v \in EndToEndValues}] :
             n \in 0..MaxSheetRows}

InitEndToEnd ==
    /\ PureInit("parse")
    /\ files = <<>>
    /\ all_rows \in EndToEndSheets
    /\ devices_by_client = <<>>

\* bot.py: report_text = format_report(devices_by_client) after the parse,
\* unless the mapping is empty ("if not devices_by_client: return").
FormatParsed ==
    /\ pc = "parsed"
    /\ exc = "none"
    /\ DOMAIN devices_by_client # {}
    /\ report_text' = format_report(devices_by_client)
    /\ pc' = "formatted"
    /\ UNCHANGED <<reportFrame, stats_by_client, stdout>>

NextEndToEnd == Parse \/ FormatParsed \/ Generate

SpecEndToEnd == InitEndToEnd /\ [][NextEndToEnd]_vars

\* The sheet of the example, with the given label on the WM row.
ExampleSheet(wm_label) ==
    <<Row(15, PyStr(Label(1)), PyInt(500)),
      Row(15, PyStr(Label(1)), PyInt(1500)),
      Row(15, PyStr(wm_label), PyInt(900))>>

HashratesOf(devices) == [i \in 1..Len(devices) |-> devices[i].hashrate]

Contains(text, line) == \E i \in 1..Len(text) : text[i] = line

\* The mapping {L7: [0.5, 1.5], WM: [0.9]} and the four lines of the report.
ExampleOutcome ==
    /\ pc # "parse" =>
         /\ exc = "none"
         /\ DOMAIN devices_by_client = {"L7", "WM"}
         /\ HashratesOf(devices_by_client["L7"]) = <<Rat(1, 2), Rat(3, 2)>>
         /\ HashratesOf(devices_by_client["WM"]) = <<Rat(9, 10)>>
    /\ pc \in {"formatted", "generated"} =>
         /\ Contains(report_text, "L7-1,00 (2sht-2hesh)")
         /\ Contains(report_text, "WM-0,90 (1sht-1hesh)")
         /\ Contains(report_text, "ITOG LTC 2")
         /\ Contains(report_text, "ITOG BTC 1")
    /\ pc = "generated" =>
         /\ Contains(stdout, "L7-1,00 (2sht-2hesh)")
         /\ Contains(stdout, "WM-0,90 (1sht-1hesh)")
         /\ Contains(stdout, "ITOG LTC 2")
         /\ Contains(stdout, "ITOG BTC 1")

\* C11 as stated: the sheet with two "Nasha kompaniya L7" rows (500, 1500) and
\* one "Nasha kompaniya WM" row (900) is extracted to {L7: [0.5, 1.5],
\* WM: [0.9]} and its report contains "L7-1,00 (2sht-2hesh)",
\* "WM-0,90 (1sht-1hesh)", "ITOG LTC 2" and "ITOG BTC 1".
C11_EndToEndShortLabel ==
    all_rows = ExampleSheet(SHORT_WM_LABEL) => ExampleOutcome

\* C11 with the label client_mapping maps to WM: the sheet with two
\* "Nasha kompaniya L7" rows (500, 1500) and one "Nasha kompaniya Whatsminer"
\* row (900) is extracted to {L7: [0.5, 1.5], WM: [0.9]} and its report
\* contains the four lines.
C11_EndToEndWhatsminer ==
    all_rows = ExampleSheet(Label(3)) => ExampleOutcome

\* The report of the example sheet has been built and printed.
C11_Witness ==
    /\ pc = "generated"
    /\ all_rows = ExampleSheet(Label(3))
    /\ Len(report_text) = 10
    /\ report_text[5] = "L7-1,00 (2sht-2hesh)"
    /\ report_text[8] = "WM-0,90 (1sht-1hesh)"

(***************************************************************************)
(* ensure_settings_panel_open as a guard.                                  *)
(***************************************************************************)
ToggleClickedAtMostOnce == nav.clicks["toggle"] <= 1

OpenPanelNotToggled == nav.panel_at_start => nav.clicks["toggle"] = 0

PanelStepEndsOpen == (pc = "export_click" /\ exc = "none") => ui.panel_open

\* C12: when the settings panel is already open at the start of
\* ensure_settings_panel_open (its element rendered or not yet), the toggle
\* is not clicked; the toggle is clicked at most once in a run; the step ends
\* with the panel open or with a timeout.
C12_IdempotentGuard ==
    /\ ToggleClickedAtMostOnce
    /\ OpenPanelNotToggled
    /\ PanelStepEndsOpen

====
